---- MODULE Spec2Model ----
(***************************************************************************)
(* Barrel Monitor API test suite (Playwright): the scenarios of            *)
(* tests/barrels.spec.ts and of the measurements spec file, the fixture    *)
(* generators, the zod schemas and the response validators, run against    *)
(* the Barrel Monitor service as the suite's external-interface section    *)
(* and its own assertions describe it.                                     *)
(***************************************************************************)
EXTENDS Integers, Sequences, FiniteSets, TLC

VARIABLES barrels, measurements, pc, loc, conc, last, checked

vars == <<barrels, measurements, pc, loc, conc, last, checked>>

(***************************************************************************)
(* JavaScript / JSON values.  A number n stands for n/100 (two fractional  *)
(* digits are the finest grain the generators produce).                    *)
(***************************************************************************)
Undef == [k |-> "undef"]
Null == [k |-> "null"]
Str(s) == [k |-> "str", s |-> s]
Num(n) == [k |-> "num", n |-> n]
Obj(o) == [k |-> "obj", o |-> o]
Arr(a) == [k |-> "arr", a |-> a]

\* No own properties.
EmptyObj == Obj(<<>>)

\* Property read o.key: undefined when the value is no object or has no such key.
Get(v, key) ==
    IF v.k = "obj" /\ key \in DOMAIN v.o THEN v.o[key] ELSE Undef

\* Property write o.key = val on a fixture object.
Set(v, key, val) ==
    Obj([x \in (DOMAIN v.o) \cup {key} |-> IF x = key THEN val ELSE v.o[x]])

\* expect(v).toBeTruthy()
Truthy(v) ==
    CASE v.k = "undef" -> FALSE
      [] v.k = "null" -> FALSE
      [] v.k = "str" -> v.s # ""
      [] v.k = "num" -> v.n # 0
      [] OTHER -> TRUE

\* String(n) of a whole number n in 0..99.
Digit == <<"0", "1", "2", "3", "4", "5", "6", "7", "8", "9">>

NumberStr(n) ==
    IF n < 10 THEN Digit[n + 1] ELSE Digit[(n \div 10) + 1] \o Digit[(n % 10) + 1]

\* `${v}` inside a template literal (numbers of this model: whole, 0..99).
TemplateStr(v) ==
    CASE v.k = "undef" -> "undefined"
      [] v.k = "null" -> "null"
      [] v.k = "str" -> v.s
      [] v.k = "num" -> NumberStr(v.n \div 100)
      [] OTHER -> "[object Object]"

\* A serializer that writes a property whose value is undefined as null.
SerializeUndefinedAsNull(v) ==
    IF v.k = "obj"
    THEN Obj([x \in DOMAIN v.o |-> IF v.o[x] = Undef THEN Null ELSE v.o[x]])
    ELSE v

\* JSON.stringify of the request data: a property whose value is undefined is
\* left out of the text, every other property is written.
Serialize(v) ==
    IF v.k = "obj"
    THEN Obj([x \in {y \in DOMAIN v.o : v.o[y] # Undef} |-> v.o[x]])
    ELSE v

\* The pieces strings of this model are cut into (for substring tests).
Affixes ==
    { "", "; charset=utf-8", "; boundary=ExampleBoundaryString", ". Path: $.id", ". Path: $.qr", ". Path: $.rfid",
      ". Path: $.nfc", ". Path: $.barrelId", ". Path: $.dirtLevel",
      ". Path: $.weight" }

\* expect(s).toBe(sub) on strings.
ToBe(s, sub) == s = sub

\* expect(s).toContain(sub) on strings.
Contains(s, sub) ==
    \E p \in Affixes, t \in Affixes : s = p \o sub \o t

(***************************************************************************)
(* Identifiers.  A GUID is the 36-character 8-4-4-4-12 text; the other     *)
(* identifier texts of the suite (a 26-character ULID, 'not-guid',         *)
(* 'I-do-not-exist', 'undefined') differ from it in length already.        *)
(***************************************************************************)
GuidLen == 36

IsGuid(s) == Len(s) = GuidLen

TwoDigits(n) == Digit[((n \div 10) % 10) + 1] \o Digit[(n % 10) + 1]

\* The n-th GUID of origin a (a in 0..99, n in 0..99).  GUIDs are generated
\* without coordination, so the GUID a party draws does not depend on what the
\* other parties do: each origin draws from its own range.
Guid(a, n) == "00000000-0000-4000-8000-00000000" \o TwoDigits(a) \o TwoDigits(n)

(***************************************************************************)
(* Numbers                                                                 *)
(***************************************************************************)
\* Hundredths per unit: the JavaScript number x is Num(x * Scale).
Scale == 100

N(x) == Num(x * Scale)

(***************************************************************************)
(* The Barrel Monitor service, as the suite consumes it.                   *)
(* A store is [barrels, measurements]; a barrel is [id, qr, rfid, nfc] and *)
(* a measurement [id, barrelId, dirtLevel, weight].                        *)
(***************************************************************************)
JsonType == "application/json; charset=utf-8"

ProblemType == "application/problem+json; charset=utf-8"

NoContent(status) == [status |-> status, ctype |-> "", body |-> Undef]

BarrelJson(b) ==
    Obj([id |-> Str(b.id), qr |-> Str(b.qr), rfid |-> Str(b.rfid), nfc |-> Str(b.nfc)])

MeasurementJson(m) ==
    Obj([id |-> Str(m.id), barrelId |-> Str(m.barrelId),
         dirtLevel |-> Num(m.dirtLevel), weight |-> Num(m.weight)])

\* The rows of a table, in the order the service lists them.
RECURSIVE SetToSeq(_)
SetToSeq(S) ==
    IF S = {} THEN <<>>
    ELSE LET x == CHOOSE y \in S : TRUE IN <<x>> \o SetToSeq(S \ {x})

\* The error key of a request field.
ErrorKey(f) ==
    CASE f = "qr" -> "Qr"
      [] f = "rfid" -> "Rfid"
      [] f = "nfc" -> "Nfc"
      [] f = "barrelId" -> "BarrelId"
      [] f = "dirtLevel" -> "DirtLevel"
      [] f = "weight" -> "Weight"

\* The fixed message of a required field that carries no value.
ServiceRequiredMessage(f) ==
    CASE f = "qr" -> "The Qr field is required."
      [] f = "rfid" -> "The Rfid field is required."
      [] f = "nfc" -> "The Nfc field is required."
      [] f = "barrelId" -> "The BarrelId field is required."
      [] f = "dirtLevel" -> "The Dirtlevel field is required."
      [] f = "weight" -> "The Weight field is required."

\* The fixed message of a measurement number below zero.
ServicePositiveMessage(f) ==
    CASE f = "dirtLevel" -> "DirtLevel must be positive number"
      [] f = "weight" -> "Weight must be positive number"

\* The type-conversion message of the field at path $.f.
ServiceConversionMessage(f) ==
    ( CASE f \in {"qr", "rfid", "nfc"} ->
             "The JSON value could not be converted to System.String"
        [] f \in {"id", "barrelId"} ->
             "The JSON value could not be converted to System.Guid"
        [] OTHER -> "The JSON value could not be converted to System.Double" )
    \o ". Path: $." \o f

\* The validation-error envelope: title, status and the errors mapping.
ValidationError(errors) ==
    [ status |-> 400, ctype |-> ProblemType,
      body |-> Obj([ title |-> Str("One or more validation errors occurred."),
                     status |-> N(400),
                     errors |-> Obj(errors) ]) ]

\* A title-only error.
TitleError(status, title) ==
    [ status |-> status, ctype |-> ProblemType,
      body |-> Obj([title |-> Str(title), status |-> N(status)]) ]

\* A field that carries no value: left out, null or the empty text.
NoValue(v) == v.k \in {"undef", "null"} \/ v = Str("")

\* The fields of a POST /barrels body that cannot be read as their type.
BarrelUnreadable(w) ==
    {f \in {"qr", "rfid", "nfc"} : Get(w, f).k \notin {"undef", "null", "str"}}
    \cup {f \in {"id"} : /\ Get(w, f).k \notin {"undef", "null"}
                         /\ ~(Get(w, f).k = "str" /\ IsGuid(Get(w, f).s))}

\* The fields of a POST /measurements body that cannot be read as their type.
MeasurementUnreadable(w) ==
    {f \in {"dirtLevel", "weight"} : ~NoValue(Get(w, f)) /\ Get(w, f).k # "num"}
    \cup {f \in {"id", "barrelId"} :
             /\ ~NoValue(Get(w, f))
             /\ ~(Get(w, f).k = "str" /\ IsGuid(Get(w, f).s))}

\* errors of a body with unreadable fields: the whole argument counts as not
\* given, and each unreadable field is named by its path.
ConversionErrors(arg, bad) ==
    [x \in {arg} \cup {"$." \o f : f \in bad} |->
        IF x = arg
        THEN Arr(<<Str("The " \o arg \o " field is required.")>>)
        ELSE Arr(<<Str(ServiceConversionMessage(CHOOSE f \in bad : x = "$." \o f))>>)]

\* errors of a readable body with invalid fields.
FieldErrors(w, missing, negative) ==
    [x \in {ErrorKey(f) : f \in missing \cup negative} |->
        LET f == CHOOSE g \in missing \cup negative : ErrorKey(g) = x
        IN  IF f \in missing
            THEN Arr(<<Str(ServiceRequiredMessage(f))>>)
            ELSE Arr(<<Str(ServicePositiveMessage(f))>>)]

\* POST /barrels.  g is the GUID the service draws for a created barrel.
PostBarrels(st, ctype, w, g) ==
    LET bad == BarrelUnreadable(w)
        missing == {f \in {"qr", "rfid", "nfc"} : NoValue(Get(w, f))}
        b == [id |-> g, qr |-> Get(w, "qr").s, rfid |-> Get(w, "rfid").s,
              nfc |-> Get(w, "nfc").s]
    IN  IF ~Contains(ctype, "application/json")
        THEN [st |-> st, resp |-> NoContent(415)]
        ELSE IF bad # {}
        THEN [st |-> st, resp |-> ValidationError(ConversionErrors("barrel", bad))]
        ELSE IF missing # {}
        THEN [st |-> st, resp |-> ValidationError(FieldErrors(w, missing, {}))]
        ELSE [ st |-> [st EXCEPT !.barrels = @ \cup {b}],
               resp |-> [status |-> 201, ctype |-> JsonType, body |-> BarrelJson(b)] ]

\* POST /measurements.  g is the GUID the service draws for a created measurement.
PostMeasurements(st, ctype, w, g) ==
    LET bad == MeasurementUnreadable(w)
        missing == {f \in {"barrelId", "dirtLevel", "weight"} : NoValue(Get(w, f))}
        negative == {f \in {"dirtLevel", "weight"} :
                        Get(w, f).k = "num" /\ Get(w, f).n < 0}
        m == [id |-> g, barrelId |-> Get(w, "barrelId").s,
              dirtLevel |-> Get(w, "dirtLevel").n, weight |-> Get(w, "weight").n]
    IN  IF ~Contains(ctype, "application/json")
        THEN [st |-> st, resp |-> NoContent(415)]
        ELSE IF bad # {}
        THEN [st |-> st, resp |-> ValidationError(ConversionErrors("measurement", bad))]
        ELSE IF missing \cup negative # {}
        THEN [st |-> st, resp |-> ValidationError(FieldErrors(w, missing, negative))]
        ELSE IF \A b \in st.barrels : b.id # m.barrelId
        THEN [st |-> st, resp |-> TitleError(404, "Barrel was not found.")]
        ELSE [ st |-> [st EXCEPT !.measurements = @ \cup {m}],
               resp |-> [status |-> 201, ctype |-> JsonType, body |-> MeasurementJson(m)] ]

\* GET /barrels and GET /measurements.
GetBarrels(st) ==
    [ st |-> st,
      resp |-> [ status |-> 200, ctype |-> JsonType,
                 body |-> Arr(SetToSeq({BarrelJson(b) : b \in st.barrels})) ] ]

GetMeasurements(st) ==
    [ st |-> st,
      resp |-> [ status |-> 200, ctype |-> JsonType,
                 body |-> Arr(SetToSeq({MeasurementJson(m) : m \in st.measurements})) ] ]

\* GET /barrels/{id} and GET /measurements/{id}.
GetBarrel(st, id) ==
    IF \E b \in st.barrels : b.id = id
    THEN [ st |-> st,
           resp |-> [ status |-> 200, ctype |-> JsonType,
                      body |-> BarrelJson(CHOOSE b \in st.barrels : b.id = id) ] ]
    ELSE [st |-> st, resp |-> TitleError(404, "Not Found")]

GetMeasurement(st, id) ==
    IF \E m \in st.measurements : m.id = id
    THEN [ st |-> st,
           resp |-> [ status |-> 200, ctype |-> JsonType,
                      body |-> MeasurementJson(CHOOSE m \in st.measurements : m.id = id) ] ]
    ELSE [st |-> st, resp |-> TitleError(404, "Not Found")]

\* DELETE /barrels/{id}: the barrel goes, and with it every measurement of it.
DeleteBarrel(st, id) ==
    IF \E b \in st.barrels : b.id = id
    THEN [ st |-> [ barrels |-> {b \in st.barrels : b.id # id},
                    measurements |-> {m \in st.measurements : m.barrelId # id} ],
           resp |-> NoContent(204) ]
    ELSE [st |-> st, resp |-> TitleError(404, "Not Found")]

\* One request served.  req is [method, path, ctype, data, guid]: path is the
\* sequence of the URL's segments, data the JSON text's value.
Serve(st, req) ==
    LET coll == req.path[1]
        item == Len(req.path) = 2
    IN  CASE req.method \in {"PUT", "PATCH"} ->
               [st |-> st, resp |-> NoContent(405)]
          [] req.method = "POST" /\ ~item /\ coll = "barrels" ->
               PostBarrels(st, req.ctype, req.data, req.guid)
          [] req.method = "POST" /\ ~item /\ coll = "measurements" ->
               PostMeasurements(st, req.ctype, req.data, req.guid)
          [] req.method = "GET" /\ ~item /\ coll = "barrels" -> GetBarrels(st)
          [] req.method = "GET" /\ ~item /\ coll = "measurements" -> GetMeasurements(st)
          [] req.method = "GET" /\ item /\ coll = "barrels" -> GetBarrel(st, req.path[2])
          [] req.method = "GET" /\ item /\ coll = "measurements" ->
               GetMeasurement(st, req.path[2])
          [] req.method = "DELETE" /\ item /\ coll = "barrels" ->
               DeleteBarrel(st, req.path[2])
          [] OTHER -> [st |-> st, resp |-> NoContent(405)]

(***************************************************************************)
(* Entity schemas (zod).  Each is safeParse(v).success; keys the schema    *)
(* does not declare are not looked at.                                     *)
(***************************************************************************)
ZString(v) == v.k = "str"

ZStringMin1(v) == v.k = "str" /\ Len(v.s) >= 1

ZUuid(v) == v.k = "str" /\ IsGuid(v.s)

ZFloat32(v) == v.k = "num"

barrelObjectMin2(v) ==
    /\ v.k = "obj"
    /\ (Get(v, "id").k = "undef" \/ ZString(Get(v, "id")))
    /\ \A f \in {"qr", "rfid", "nfc"} : Get(v, f).k = "str" /\ Len(Get(v, f).s) >= 2

barrelObject(v) ==
    /\ v.k = "obj"
    /\ (Get(v, "id").k = "undef" \/ ZString(Get(v, "id")))
    /\ ZStringMin1(Get(v, "qr"))
    /\ ZStringMin1(Get(v, "rfid"))
    /\ ZStringMin1(Get(v, "nfc"))

measurementObject(v) ==
    /\ v.k = "obj"
    /\ (Get(v, "id").k = "undef" \/ ZUuid(Get(v, "id")))
    /\ ZUuid(Get(v, "barrelId"))
    /\ ZFloat32(Get(v, "dirtLevel"))
    /\ ZFloat32(Get(v, "weight"))

\* barrelObject.array().safeParse(v).success
barrelObjectArray(v) ==
    v.k = "arr" /\ \A i \in 1..Len(v.a) : barrelObject(v.a[i])

\* measurementObject.array().safeParse(v).success
measurementObjectArray(v) ==
    v.k = "arr" /\ \A i \in 1..Len(v.a) : measurementObject(v.a[i])

\* a[i] of a JavaScript array (undefined out of range or on a non-array).
At(v, i) ==
    IF v.k = "arr" /\ i + 1 <= Len(v.a) THEN v.a[i + 1] ELSE Undef

FindFirst(v, id) ==
    IF v.k = "arr" /\ Len(v.a) > 0 THEN v.a[1] ELSE Undef

\* array.find((e) => e.id === id)
FindById(v, id) ==
    IF v.k = "arr" /\ \E i \in 1..Len(v.a) : Get(v.a[i], "id") = id
    THEN v.a[CHOOSE i \in 1..Len(v.a) :
                 /\ Get(v.a[i], "id") = id
                 /\ \A j \in 1..(i - 1) : Get(v.a[j], "id") # id]
    ELSE Undef

(***************************************************************************)
(* Fixture generators (faker).  r is the random draw.                      *)
(***************************************************************************)
\* faker.string.nanoid(): 21 characters.
NanoId(r) == "V1StGXR8_Z5jdHi6B-m" \o TwoDigits(r)

\* faker.string.ulid(): 26 characters.
UlidOf(r) == "01ARZ3NDEKTSV4RRFFQ69G5F" \o TwoDigits(r)

\* faker.string.alpha(20): 20 letters.
Letter == <<"a", "b", "c", "d", "e", "f", "g", "h", "i", "j">>

Alpha20(r) == "qwertyuiopasdfghjk" \o Letter[((r \div 10) % 10) + 1] \o Letter[(r % 10) + 1]

\* The same with nfc: faker.string.alpha(0).
prepareBarrelObjectNoNfc(r) ==
    Obj([qr |-> Str(NanoId(r)), rfid |-> Str(UlidOf(r)), nfc |-> Str("")])

prepareBarrelObject(r) ==
    Obj([qr |-> Str(NanoId(r)), rfid |-> Str(UlidOf(r)), nfc |-> Str(Alpha20(r))])

\* faker.number.float({min: 1.0, max: 95.0, fractionDigits: 2}), in hundredths.
DirtLevelOf(r) == 100 + ((r * 4700) % 9401)

\* faker.number.float({min: 100, max: 200, fractionDigits: 1}), in hundredths.
WeightOf(r) == 10000 + 10 * ((r * 500) % 1001)

prepareMeasurementObjectBelowZero(barrelId, r) ==
    Obj([barrelId |-> barrelId, dirtLevel |-> Num(DirtLevelOf(r)),
         weight |-> Num(WeightOf(r) - 20000 - Scale)])

prepareMeasurementObject(barrelId, r) ==
    Obj([barrelId |-> barrelId, dirtLevel |-> Num(DirtLevelOf(r)),
         weight |-> Num(WeightOf(r))])

(***************************************************************************)
(* Response validators                                                     *)
(***************************************************************************)
\* The outcome of a validator: did every expect hold, which one failed, was
\* the body read, and the value handed back.
Checked(ok, failed, read, value) ==
    [ok |-> ok, failed |-> failed, read |-> read, value |-> value]

checkBarrelResponseAndReturnBody(response) ==
    IF ~Contains(response.ctype, "application/json")
    THEN Checked(FALSE, "content-type", FALSE, Undef)
    ELSE IF ~Truthy(response.body)
    THEN Checked(FALSE, "truthy", TRUE, Undef)
    ELSE IF ~barrelObject(response.body)
    THEN Checked(FALSE, "schema", TRUE, Undef)
    ELSE Checked(TRUE, "", TRUE, response.body)

checkMeasurementResponseAndReturnBody(response) ==
    IF ~Contains(response.ctype, "application/json")
    THEN Checked(FALSE, "content-type", FALSE, Undef)
    ELSE IF ~Truthy(response.body)
    THEN Checked(FALSE, "truthy", TRUE, Undef)
    ELSE IF ~measurementObject(response.body)
    THEN Checked(FALSE, "schema", TRUE, Undef)
    ELSE Checked(TRUE, "", TRUE, response.body)

validationErrorMessage == "One or more validation errors occurred."

\* checkErrorResponse of the barrel helper.
checkErrorResponse(response) ==
    /\ Truthy(response)
    /\ Get(response, "title") = Str(validationErrorMessage)
    /\ Truthy(Get(response, "errors"))

\* checkErrorResponse of the measurement helper.
checkMeasurementErrorResponse(response) ==
    /\ Truthy(response)
    /\ Get(response, "title") = Str(validationErrorMessage)
    /\ Truthy(Get(response, "errors"))

\* The shared shape of the six required-field checks: the envelope, the key,
\* and the first message equal to the fixed text.
FirstMessageIs(response, key, message) ==
    /\ Truthy(Get(Get(response, "errors"), key))
    /\ At(Get(Get(response, "errors"), key), 0) = Str(message)

checkQrRequiredErrorResponse(response) ==
    checkErrorResponse(response)
    /\ FirstMessageIs(response, "Qr", "The Qr field is required.")

checkRfidRequiredErrorResponse(response) ==
    checkErrorResponse(response)
    /\ FirstMessageIs(response, "Rfid", "The Rfid field is required.")

checkNfcRequiredErrorResponse(response) ==
    checkErrorResponse(response)
    /\ FirstMessageIs(response, "Nfc", "The Nfc field is required.")

checkBarrelIdRequiredErrorResponse(response) ==
    checkMeasurementErrorResponse(response)
    /\ FirstMessageIs(response, "BarrelId", "The BarrelId field is required.")

checkDirtLevelRequiredErrorResponseCased(response) ==
    checkMeasurementErrorResponse(response)
    /\ FirstMessageIs(response, "DirtLevel", "The DirtLevel field is required.")

checkDirtLevelRequiredErrorResponse(response) ==
    checkMeasurementErrorResponse(response)
    /\ FirstMessageIs(response, "DirtLevel", "The Dirtlevel field is required.")

checkWeightRequiredErrorResponse(response) ==
    checkMeasurementErrorResponse(response)
    /\ FirstMessageIs(response, "Weight", "The Weight field is required.")

(***************************************************************************)
(* Requests                                                                *)
(***************************************************************************)
\* use.extraHTTPHeaders of the configuration.
extraHTTPHeaders == [x \in {"Content-Type"} |-> "application/json"]

\* No headers of its own.
NoHeaders == <<>>

\* Header names compare without case.
LowerCase(name) ==
    CASE name = "Content-Type" -> "content-type"
      [] OTHER -> name

RequestHeadersConfiguredWin(own) ==
    [n \in {LowerCase(x) : x \in (DOMAIN extraHTTPHeaders) \cup (DOMAIN own)} |->
        IF \E x \in DOMAIN extraHTTPHeaders : LowerCase(x) = n
        THEN extraHTTPHeaders[CHOOSE x \in DOMAIN extraHTTPHeaders : LowerCase(x) = n]
        ELSE own[CHOOSE x \in DOMAIN own : LowerCase(x) = n]]

\* The headers a request goes out with: the configured ones, each replaced by
\* the request's own header of the same name.
RequestHeaders(own) ==
    [n \in {LowerCase(x) : x \in (DOMAIN extraHTTPHeaders) \cup (DOMAIN own)} |->
        IF \E x \in DOMAIN own : LowerCase(x) = n
        THEN own[CHOOSE x \in DOMAIN own : LowerCase(x) = n]
        ELSE extraHTTPHeaders[CHOOSE x \in DOMAIN extraHTTPHeaders : LowerCase(x) = n]]

\* request.<method>(url, { data, headers }); guid is what the service would draw.
Request(method, path, own, data, guid) ==
    [ method |-> method, path |-> path, ctype |-> RequestHeaders(own)["content-type"],
      data |-> Serialize(data), guid |-> guid ]

barrelsEndpoint == "barrels"

measurementsEndpoint == "measurements"

(***************************************************************************)
(* State.  barrels, measurements: the remote store.  pc[s]: where scenario *)
(* s stands ("start", its await points, "passed", "failed"); a scenario    *)
(* that creates a resource runs once.  loc[s]: what a scenario keeps       *)
(* across its awaits, its fixture and the response of its create call.     *)
(* conc: the requests of the concurrency scenario.  last: the latest       *)
(* request served, its response, and whether the expects that follow it    *)
(* (up to the scenario's next await) held.  checked: the latest call of a   *)
(* generator or validator taken on its own: the function, the response it  *)
(* was given and its outcome.                                              *)
(***************************************************************************)
\* Draws of the random generators.
MaxSeed == 1

Seeds == 0..MaxSeed

\* The scenarios and hooks that create resources.
Scenarios ==
    << "CreateValidBarrel", "MinimalQr", "MinimalRfid", "MinimalNfc", "Concurrent",
       "GetCreatedBarrel", "FindCreatedBarrel", "DeleteBarrel", "Sanitized",
       "BeforeAllPositive", "FindCreatedMeasurement", "Cascade",
       "BeforeAllNegative", "BarrelMissing", "MeasurementMissing",
       "QrTooLong", "RfidTooLong", "NfcTooLong", "CreateValidMeasurement",
       "ExtraParams" >>

ScenarioNames == {Scenarios[i] : i \in 1..Len(Scenarios)}

\* The range of GUIDs drawn for scenario s (by the service for what s creates,
\* by faker for what s makes up); a scenario that runs without a position of
\* its own draws from the range after them.
Origin(s) ==
    IF s \in ScenarioNames
    THEN CHOOSE i \in 1..Len(Scenarios) : Scenarios[i] = s
    ELSE Len(Scenarios) + 1

NoResponse == [status |-> 0, ctype |-> "", body |-> Undef]

NoRequest == [method |-> "", path |-> <<>>, ctype |-> "", data |-> Undef, guid |-> ""]

\* A barrel and a measurement other runs left in the persistent store.
LegacyBarrel ==
    [id |-> Guid(0, 0), qr |-> "legacy_qr", rfid |-> "legacy_rfid", nfc |-> "legacy_nfc"]

LegacyMeasurement ==
    [id |-> Guid(0, 1), barrelId |-> Guid(0, 0), dirtLevel |-> 1000, weight |-> 12000]

Store == [barrels |-> barrels, measurements |-> measurements]

Init ==
    /\ \E legacy \in BOOLEAN :
         /\ barrels = IF legacy THEN {LegacyBarrel} ELSE {}
         /\ measurements = IF legacy THEN {LegacyMeasurement} ELSE {}
    /\ pc = [s \in ScenarioNames |-> "start"]
    /\ loc = [s \in ScenarioNames |-> [barrel |-> Undef, resp |-> NoResponse]]
    /\ conc = [sent |-> {}, responses |-> <<>>]
    /\ last = [by |-> "", req |-> NoRequest, resp |-> NoResponse, ok |-> TRUE]
    /\ checked = [fn |-> "", resp |-> NoResponse, out |-> Checked(TRUE, "", FALSE, Undef)]

\* Scenario s sends req and awaits the response.  Ok(response): the expects
\* that follow, up to the next await, hold; a failed expect ends the scenario.
\* next: where the scenario stands then.  Keep(response): its locals then.
Call(s, req, Ok(_), next, Keep(_)) ==
    \E ex \in {Serve(Store, req)} :
    \E ok \in {Ok(ex.resp)} :
        /\ barrels' = ex.st.barrels
        /\ measurements' = ex.st.measurements
        /\ last' = [by |-> s, req |-> req, resp |-> ex.resp, ok |-> ok]
        /\ IF s \in ScenarioNames
           THEN /\ pc' = [pc EXCEPT ![s] = IF ok THEN next ELSE "failed"]
                /\ loc' = [loc EXCEPT ![s] = Keep(ex.resp)]
           ELSE UNCHANGED <<pc, loc>>
        /\ UNCHANGED <<conc, checked>>

\* The locals of a scenario that keeps its fixture and the response.
Locals(barrel, response) == [barrel |-> barrel, resp |-> response]

Finished(s) == pc[s] \in {"passed", "failed"}

\* expect(body.qr/rfid/nfc) toEqual the fixture's.
TagsEqual(body, barrel) ==
    /\ Get(body, "qr") = Get(barrel, "qr")
    /\ Get(body, "rfid") = Get(barrel, "rfid")
    /\ Get(body, "nfc") = Get(barrel, "nfc")

(***************************************************************************)
(* Barrels endpoint - positive scenarios                                   *)
(***************************************************************************)
\* test 'Create valid barrel'
CreateValidBarrel ==
    /\ pc["CreateValidBarrel"] = "start"
    /\ \E r \in Seeds :
         LET s == "CreateValidBarrel"
             barrel == prepareBarrelObject(r)
             Ok(response) ==
                 LET chk == checkBarrelResponseAndReturnBody(response)
                 IN  /\ response.status = 201
                     /\ chk.ok
                     /\ Truthy(Get(chk.value, "id"))
                     /\ TagsEqual(chk.value, barrel)
             Keep(response) == loc[s]
         IN  Call(s, Request("POST", <<barrelsEndpoint>>, NoHeaders, barrel,
                             Guid(Origin(s), 0)), Ok, "passed", Keep)

\* tests 'Create valid barrel - Minimal Qr / Rfid / Nfc lenght'
MinimalField(s) ==
    CASE s = "MinimalQr" -> "qr"
      [] s = "MinimalRfid" -> "rfid"
      [] s = "MinimalNfc" -> "nfc"

CreateMinimal(s) ==
    /\ pc[s] = "start"
    /\ \E r \in Seeds :
         LET barrel == Set(prepareBarrelObject(r), MinimalField(s), Str("T"))
             Ok(response) == response.status = 201
             Keep(response) == loc[s]
         IN  Call(s, Request("POST", <<barrelsEndpoint>>, NoHeaders, barrel,
                             Guid(Origin(s), 0)), Ok, "passed", Keep)

\* test 'Get created barrel': the create call.
GetCreatedPost ==
    /\ pc["GetCreatedBarrel"] = "start"
    /\ \E r \in Seeds :
         LET s == "GetCreatedBarrel"
             barrel == Set(prepareBarrelObject(r), "id", Str(UlidOf(r + 50)))
             Ok(response) == TRUE
             Keep(response) == Locals(barrel, response)
         IN  Call(s, Request("POST", <<barrelsEndpoint>>, NoHeaders, barrel,
                             Guid(Origin(s), 0)), Ok, "posted", Keep)

\* test 'Get created barrel': the read and its expects.
GetCreatedGet ==
    /\ pc["GetCreatedBarrel"] = "posted"
    /\ LET s == "GetCreatedBarrel"
           barrel == loc[s].barrel
           Ok(response) ==
               LET chk == checkBarrelResponseAndReturnBody(response)
               IN  /\ response.status = 200
                   /\ chk.ok
                   /\ Get(chk.value, "id") = Get(barrel, "id")
                   /\ TagsEqual(chk.value, barrel)
           Keep(response) == loc[s]
       IN  Call(s, Request("GET", <<barrelsEndpoint, TemplateStr(Get(barrel, "id"))>>,
                           NoHeaders, Undef, ""), Ok, "passed", Keep)

\* test 'Get array of barrels and find created barrel': the create call.
FindCreatedBarrelPost ==
    /\ pc["FindCreatedBarrel"] = "start"
    /\ \E r \in Seeds :
         LET s == "FindCreatedBarrel"
             Ok(response) == response.status = 201
             Keep(response) == Locals(response.body, response)
         IN  Call(s, Request("POST", <<barrelsEndpoint>>, NoHeaders,
                             prepareBarrelObject(r), Guid(Origin(s), 0)),
                  Ok, "posted", Keep)

\* test 'Get array of barrels and find created barrel': the listing.
FindCreatedBarrelList ==
    /\ pc["FindCreatedBarrel"] = "posted"
    /\ LET s == "FindCreatedBarrel"
           createdBarrel == loc[s].barrel
           Ok(response) ==
               LET responseBody == response.body
                   foundBarrel == FindById(responseBody, Get(createdBarrel, "id"))
               IN  /\ response.status = 200
                   /\ Contains(response.ctype, "application/json")
                   /\ barrelObjectArray(responseBody)
                   /\ Len(responseBody.a) > 0
                   /\ Truthy(foundBarrel)
                   /\ foundBarrel = createdBarrel
           Keep(response) == loc[s]
       IN  Call(s, Request("GET", <<barrelsEndpoint>>, NoHeaders, Undef, ""),
                Ok, "passed", Keep)

\* test 'Delete barrel': the create call.
DeleteBarrelPost ==
    /\ pc["DeleteBarrel"] = "start"
    /\ \E r \in Seeds :
         LET s == "DeleteBarrel"
             barrel == prepareBarrelObject(r)
             Ok(response) == TRUE
             Keep(response) == Locals(barrel, response)
         IN  Call(s, Request("POST", <<barrelsEndpoint>>, NoHeaders, barrel,
                             Guid(Origin(s), 0)), Ok, "posted", Keep)

\* test 'Delete barrel': the DELETE and its expect.
DeleteBarrelDelete ==
    /\ pc["DeleteBarrel"] = "posted"
    /\ LET s == "DeleteBarrel"
           Ok(response) == response.status = 204
           Keep(response) == loc[s]
       IN  Call(s, Request("DELETE",
                           <<barrelsEndpoint, TemplateStr(Get(loc[s].barrel, "id"))>>,
                           NoHeaders, Undef, ""), Ok, "deleted", Keep)

\* test 'Delete barrel': the read after the DELETE.  It is reached only past
\* expect(response.status()).toBe(204); the DELETE goes to /barrels/undefined,
\* which the service answers 404 (DeleteNeverSucceeds), so no behaviour takes it.
DeleteBarrelCheck ==
    /\ pc["DeleteBarrel"] = "deleted"
    /\ LET s == "DeleteBarrel"
           Ok(response) == response.status = 404
           Keep(response) == loc[s]
       IN  Call(s, Request("GET",
                           <<barrelsEndpoint, TemplateStr(Get(loc[s].barrel, "id"))>>,
                           NoHeaders, Undef, ""), Ok, "passed", Keep)

\* test 'Input will be sanitized'
SanitizedData ==
    Obj([ qr |-> Str("'; DROP TABLE barrels;--"),
          nfc |-> Str("<script>alert('xss')</script>"),
          rfid |-> Str("&#x53;ELECT * FROM information_schema.tables") ])

Sanitized ==
    /\ pc["Sanitized"] = "start"
    /\ LET s == "Sanitized"
           Ok(response) ==
               LET chk == checkBarrelResponseAndReturnBody(response)
               IN  /\ response.status = 201
                   /\ chk.ok
                   /\ TagsEqual(chk.value, SanitizedData)
           Keep(response) == loc[s]
       IN  Call(s, Request("POST", <<barrelsEndpoint>>, NoHeaders, SanitizedData,
                           Guid(Origin(s), 0)), Ok, "passed", Keep)

(***************************************************************************)
(* Barrels endpoint - negative scenarios.  These create nothing and keep   *)
(* no position: each is one request and the expects on its response.       *)
(***************************************************************************)
\* test 'Post - ID is not guid format'
NotGuid ==
    \E r \in Seeds :
        LET s == "NotGuid"
            barrelData == Set(prepareBarrelObject(r), "id", Str("not-guid"))
            Ok(response) ==
                LET responseBody == response.body
                    errors == Get(responseBody, "errors")
                IN  /\ response.status = 400
                    /\ checkErrorResponse(responseBody)
                    /\ Truthy(Get(errors, "barrel"))
                    /\ At(Get(errors, "barrel"), 0) = Str("The barrel field is required.")
                    /\ Truthy(Get(errors, "$.id"))
                    /\ At(Get(errors, "$.id"), 0).k = "str"
                    /\ Contains(At(Get(errors, "$.id"), 0).s,
                                "The JSON value could not be converted to System.Guid")
            Keep(response) == loc[s]
        IN  Call(s, Request("POST", <<barrelsEndpoint>>, NoHeaders, barrelData,
                            Guid(Origin(s), 0)), Ok, "passed", Keep)

\* test 'Post - Wrong header Accept type'
MultipartHeaders ==
    [x \in {"content-type"} |-> "multipart/form-data; boundary=ExampleBoundaryString"]

WrongContentType ==
    \E r \in Seeds :
        LET s == "WrongContentType"
            Ok(response) == response.status = 415
            Keep(response) == loc[s]
        IN  Call(s, Request("POST", <<barrelsEndpoint>>, MultipartHeaders,
                            prepareBarrelObject(r), Guid(Origin(s), 1)),
                 Ok, "passed", Keep)

(***************************************************************************)
(* The create / read / delete scenarios of the barrels file, run in any    *)
(* order and interleaving against the same store.                          *)
(***************************************************************************)
Next ==
    \/ CreateValidBarrel
    \/ CreateMinimal("MinimalQr")
    \/ GetCreatedPost
    \/ GetCreatedGet
    \/ DeleteBarrelPost
    \/ DeleteBarrelDelete
    \/ Sanitized
    \/ NotGuid
    \/ WrongContentType

Spec == Init /\ [][Next]_vars

(***************************************************************************)
(* Measurements endpoint - positive scenarios                              *)
(***************************************************************************)
\* test.beforeAll of the positive block: the barrel measurements are linked to.
BeforeAllPositive ==
    /\ pc["BeforeAllPositive"] = "start"
    /\ \E r \in Seeds :
         LET s == "BeforeAllPositive"
             Ok(response) == response.status = 201
             Keep(response) == Locals(response.body, response)
         IN  Call(s, Request("POST", <<barrelsEndpoint>>, NoHeaders,
                             prepareBarrelObject(r), Guid(Origin(s), 0)),
                  Ok, "passed", Keep)

\* let barrelId of the positive block.
barrelId == Get(loc["BeforeAllPositive"].barrel, "id")

\* test 'Get array of measurements and find created': the create call.
FindCreatedMeasurementPost ==
    /\ pc["BeforeAllPositive"] = "passed"
    /\ pc["FindCreatedMeasurement"] = "start"
    /\ \E r \in Seeds :
         LET s == "FindCreatedMeasurement"
             measurement == prepareMeasurementObject(barrelId, r)
             Ok(response) == TRUE
             Keep(response) == Locals(response.body, response)
         IN  Call(s, Request("POST", <<measurementsEndpoint>>, NoHeaders, measurement,
                             Guid(Origin(s), 0)), Ok, "posted", Keep)

\* test 'Get array of measurements and find created': the listing.
FindCreatedMeasurementList ==
    /\ pc["FindCreatedMeasurement"] = "posted"
    /\ LET s == "FindCreatedMeasurement"
           createdMeasurementBody == loc[s].barrel
           Ok(response) ==
               LET body == response.body
                   foundMeasurement == FindById(body, Get(createdMeasurementBody, "id"))
               IN  /\ measurementObjectArray(body)
                   /\ Len(body.a) > 0
                   /\ Truthy(foundMeasurement)
                   /\ foundMeasurement = createdMeasurementBody
           Keep(response) == loc[s]
       IN  Call(s, Request("GET", <<measurementsEndpoint>>, NoHeaders, Undef, ""),
                Ok, "passed", Keep)

\* test 'Deleted barrel deletes linked measurements': the barrel.
CascadeBarrel ==
    /\ pc["BeforeAllPositive"] = "passed"
    /\ pc["Cascade"] = "start"
    /\ \E r \in Seeds :
         LET s == "Cascade"
             Ok(response) == response.status = 201 /\ Truthy(Get(response.body, "id"))
             Keep(response) == Locals(response.body, NoResponse)
         IN  Call(s, Request("POST", <<"barrels">>, NoHeaders, prepareBarrelObject(r),
                             Guid(Origin(s), 0)), Ok, "created", Keep)

\* The measurement it links to barrelToBeDeleted.
CascadeMeasurementOfShared(r) == prepareMeasurementObject(barrelId, r)

CascadeMeasurement(r) ==
    prepareMeasurementObject(Get(loc["Cascade"].barrel, "id"), r)

\* test 'Deleted barrel deletes linked measurements': the measurement.
CascadeMeasure ==
    /\ pc["Cascade"] = "created"
    /\ \E r \in Seeds :
         LET s == "Cascade"
             Ok(response) == response.status = 201
             Keep(response) == Locals(loc[s].barrel, response)
         IN  Call(s, Request("POST", <<measurementsEndpoint>>, NoHeaders,
                             CascadeMeasurement(r), Guid(Origin(s), 1)),
                  Ok, "measured", Keep)

\* A DELETE that goes to the barrel of the block instead.
CascadeDeleteOfShared ==
    /\ pc["Cascade"] = "measured"
    /\ LET s == "Cascade"
           Ok(response) == response.status = 204
           Keep(response) == loc[s]
       IN  Call(s, Request("DELETE", <<"barrels", TemplateStr(barrelId)>>,
                           NoHeaders, Undef, ""), Ok, "deleted", Keep)

\* test 'Deleted barrel deletes linked measurements': the DELETE.
CascadeDelete ==
    /\ pc["Cascade"] = "measured"
    /\ LET s == "Cascade"
           Ok(response) == response.status = 204
           Keep(response) == loc[s]
       IN  Call(s, Request("DELETE",
                           <<"barrels", TemplateStr(Get(loc[s].barrel, "id"))>>,
                           NoHeaders, Undef, ""), Ok, "deleted", Keep)

\* test 'Deleted barrel deletes linked measurements': the read of the measurement.
CascadeCheck ==
    /\ pc["Cascade"] = "deleted"
    /\ LET s == "Cascade"
           Ok(response) == response.status = 404
           Keep(response) == loc[s]
       IN  Call(s, Request("GET",
                           <<measurementsEndpoint,
                             TemplateStr(Get(loc[s].resp.body, "id"))>>,
                           NoHeaders, Undef, ""), Ok, "passed", Keep)

(***************************************************************************)
(* Measurements endpoint - negative scenarios                              *)
(***************************************************************************)
\* test.beforeAll of the negative block: a valid barrel.
BeforeAllNegative ==
    /\ pc["BeforeAllNegative"] = "start"
    /\ \E r \in Seeds :
         LET s == "BeforeAllNegative"
             Ok(response) == response.status = 201
             Keep(response) == Locals(response.body, response)
         IN  Call(s, Request("POST", <<barrelsEndpoint>>, NoHeaders,
                             prepareBarrelObject(r), Guid(Origin(s), 0)),
                  Ok, "passed", Keep)

\* let barrel of the negative block.
barrel == loc["BeforeAllNegative"].barrel

\* A generator that hands out the id of the barrel of the block.
FakerUuidOfBlock(s, r) == Get(barrel, "id").s

\* faker.string.uuid(): a GUID drawn by the scenario, apart from every GUID the
\* service draws.
FakerUuid(s, r) == Guid(Origin(s), 50 + r)

\* test 'Post - Barrel does not exists': the DELETE that makes sure of it.
BarrelMissingDelete ==
    /\ pc["BeforeAllNegative"] = "passed"
    /\ pc["BarrelMissing"] = "start"
    /\ \E r \in Seeds :
         LET s == "BarrelMissing"
             Ok(response) == TRUE
             Keep(response) == Locals(Str(FakerUuid(s, r)), response)
         IN  Call(s, Request("DELETE", <<"barrels", FakerUuid(s, r)>>, NoHeaders,
                             Undef, ""), Ok, "deleted", Keep)

\* test 'Post - Barrel does not exists': the create call and its expects.
BarrelMissingPost ==
    /\ pc["BarrelMissing"] = "deleted"
    /\ \E r \in Seeds :
         LET s == "BarrelMissing"
             measurement == prepareMeasurementObject(loc[s].barrel, r)
             Ok(response) ==
                 /\ response.status = 404
                 /\ Truthy(Get(response.body, "title"))
                 /\ Get(response.body, "title") = Str("Barrel was not found.")
             Keep(response) == loc[s]
         IN  Call(s, Request("POST", <<measurementsEndpoint>>, NoHeaders, measurement,
                             Guid(Origin(s), 0)), Ok, "passed", Keep)

\* test 'Get - Measurement does not exists': the DELETE before the read.
MeasurementMissingDelete ==
    /\ pc["BeforeAllNegative"] = "passed"
    /\ pc["MeasurementMissing"] = "start"
    /\ \E r \in Seeds :
         LET s == "MeasurementMissing"
             Ok(response) == TRUE
             Keep(response) == Locals(Str(FakerUuid(s, r)), response)
         IN  Call(s, Request("DELETE", <<measurementsEndpoint, FakerUuid(s, r)>>,
                             NoHeaders, Undef, ""), Ok, "deleted", Keep)

\* test 'Get - Measurement does not exists': the read.
MeasurementMissingGet ==
    /\ pc["MeasurementMissing"] = "deleted"
    /\ LET s == "MeasurementMissing"
           Ok(response) == response.status = 404
           Keep(response) == loc[s]
       IN  Call(s, Request("GET",
                           <<measurementsEndpoint, TemplateStr(loc[s].barrel)>>,
                           NoHeaders, Undef, ""), Ok, "passed", Keep)

(***************************************************************************)
(* The per-field negative scenarios of both files.  Each is one POST of a  *)
(* body in which one field is in an invalid state, and creates nothing; it *)
(* is named field:state.                                                   *)
(***************************************************************************)
BarrelFields == {"qr", "rfid", "nfc"}

MeasurementFields == {"barrelId", "dirtLevel", "weight"}

\* The body of the field's describe block with the field in the state.
WithState(data, f, state) ==
    CASE state = "missing" -> Obj([x \in (DOMAIN data.o) \ {f} |-> data.o[x]])
      [] state = "null" -> Set(data, f, Null)
      [] state = "undefined" -> Set(data, f, Undef)
      [] state = "empty" -> Set(data, f, Str(""))
      [] state = "number" -> Set(data, f, N(123))

TestName(f, state) == f \o ":" \o state

\* rfid: 'filled', nfc: 'filled', ...
FilledBarrel == Obj([qr |-> Str("filled"), rfid |-> Str("filled"), nfc |-> Str("filled")])

\* barrelId: barrel.id, dirtLevel: 10, weight: 10
FilledMeasurement ==
    Obj([barrelId |-> Get(barrel, "id"), dirtLevel |-> N(10), weight |-> N(10)])

\* The helper a required-field scenario hands the body to.
checkRequiredErrorResponse(f, body) ==
    CASE f = "qr" -> checkQrRequiredErrorResponse(body)
      [] f = "rfid" -> checkRfidRequiredErrorResponse(body)
      [] f = "nfc" -> checkNfcRequiredErrorResponse(body)
      [] f = "barrelId" -> checkBarrelIdRequiredErrorResponse(body)
      [] f = "dirtLevel" -> checkDirtLevelRequiredErrorResponse(body)
      [] f = "weight" -> checkWeightRequiredErrorResponse(body)

\* The states the required-field scenarios of a field put it in.
RequiredStates(f) ==
    IF f \in {"dirtLevel", "weight"}
    THEN {"missing", "null", "undefined"}
    ELSE {"missing", "null", "undefined", "empty"}

\* tests '<QR/RFID/NFC> attribute is missing / null / undefined / empty string'
BarrelFieldRequired(f, state) ==
    LET s == TestName(f, state)
        Ok(response) ==
            response.status = 400 /\ checkRequiredErrorResponse(f, response.body)
        Keep(response) == loc[s]
    IN  Call(s, Request("POST", <<barrelsEndpoint>>, NoHeaders,
                        WithState(FilledBarrel, f, state), Guid(Origin(s), 2)),
             Ok, "passed", Keep)

\* const jsonInvalidValueStringMessage
jsonInvalidValueStringMessage == "The JSON value could not be converted to System.String"

\* tests '<QR/RFID/NFC> attribute is a number'
BarrelFieldNumber(f) ==
    LET s == TestName(f, "number")
        Ok(response) ==
            LET responseBody == response.body
                errors == Get(responseBody, "errors")
            IN  /\ response.status = 400
                /\ checkErrorResponse(responseBody)
                /\ Truthy(Get(errors, "barrel"))
                /\ At(Get(errors, "barrel"), 0) = Str("The barrel field is required.")
                /\ Truthy(Get(errors, "$." \o f))
                /\ At(Get(errors, "$." \o f), 0).k = "str"
                /\ Contains(At(Get(errors, "$." \o f), 0).s, jsonInvalidValueStringMessage)
        Keep(response) == loc[s]
    IN  Call(s, Request("POST", <<barrelsEndpoint>>, NoHeaders,
                        WithState(FilledBarrel, f, "number"), Guid(Origin(s), 3)),
             Ok, "passed", Keep)

\* tests 'Barrel Id / Dirt level / Weight is missing / null / undefined' and
\* 'Barrel Id is empty string'
MeasurementFieldRequired(f, state) ==
    /\ pc["BeforeAllNegative"] = "passed"
    /\ LET s == TestName(f, state)
           Ok(response) ==
               response.status = 400 /\ checkRequiredErrorResponse(f, response.body)
           Keep(response) == loc[s]
       IN  Call(s, Request("POST", <<measurementsEndpoint>>, NoHeaders,
                           WithState(FilledMeasurement, f, state), Guid(Origin(s), 3)),
                Ok, "passed", Keep)

\* dirtLevel: -10 / weight: -10
NumberAboveZero == N(10)

NegativeNumber == N(-10)

\* tests 'Dirt level is negative number' / 'Weight is negative number'
MeasurementFieldNegative(f) ==
    /\ pc["BeforeAllNegative"] = "passed"
    /\ LET s == TestName(f, "negative")
           Ok(response) ==
               LET body == response.body
                   messages == Get(Get(body, "errors"), ErrorKey(f))
               IN  /\ response.status = 400
                   /\ checkMeasurementErrorResponse(body)
                   /\ Truthy(messages)
                   /\ f = "dirtLevel" => Truthy(At(messages, 0))
                   /\ At(messages, 0) =
                        Str(IF f = "dirtLevel" THEN "DirtLevel must be positive number"
                            ELSE "Weight must be positive number")
           Keep(response) == loc[s]
       IN  Call(s, Request("POST", <<measurementsEndpoint>>, NoHeaders,
                           Set(FilledMeasurement, f, NegativeNumber),
                           Guid(Origin(s), 4)), Ok, "passed", Keep)

\* tests 'Put / Patch on base endpoint / with id - Method not allowed'
MethodTests == {"PUT:base", "PUT:id", "PATCH:base", "PATCH:id"}

MethodNotAllowed(method, withId) ==
    \E r \in Seeds :
        LET s == method \o (IF withId THEN ":id" ELSE ":base")
            barrelData == Set(prepareBarrelObject(r), "id", Str(FakerUuid(s, r)))
            path == IF withId
                    THEN <<barrelsEndpoint, TemplateStr(Get(barrelData, "id"))>>
                    ELSE <<barrelsEndpoint>>
            Ok(response) == response.status = 405
            Keep(response) == loc[s]
        IN  Call(s, Request(method, path, NoHeaders, barrelData, Guid(Origin(s), 6)),
                 Ok, "passed", Keep)

(***************************************************************************)
(* The negative scenarios, run in any order and any number of times while  *)
(* barrels are created.                                                    *)
(***************************************************************************)
NextNegative ==
    \/ BeforeAllNegative
    \/ CreateMinimal("MinimalQr")
    \/ \E f \in BarrelFields : \E state \in RequiredStates(f) :
         BarrelFieldRequired(f, state)
    \/ \E f \in BarrelFields : BarrelFieldNumber(f)
    \/ \E f \in MeasurementFields : \E state \in RequiredStates(f) :
         MeasurementFieldRequired(f, state)
    \/ \E f \in {"dirtLevel", "weight"} : MeasurementFieldNegative(f)
    \/ \E method \in {"PUT", "PATCH"} : \E withId \in BOOLEAN :
         MethodNotAllowed(method, withId)
    \/ WrongContentType

SpecNegative == Init /\ [][NextNegative]_vars

(***************************************************************************)
(* The listing scenarios of both files, with scenarios that create and     *)
(* delete other resources meanwhile.                                       *)
(***************************************************************************)
NextList ==
    \/ FindCreatedBarrelPost
    \/ FindCreatedBarrelList
    \/ BeforeAllPositive
    \/ FindCreatedMeasurementPost
    \/ FindCreatedMeasurementList
    \/ CreateMinimal("MinimalRfid")
    \/ CascadeBarrel
    \/ CascadeMeasure
    \/ CascadeDelete
    \/ CascadeCheck

SpecList == Init /\ [][NextList]_vars

(***************************************************************************)
(* The cascade scenario of the measurements file, with scenarios that      *)
(* create barrels and measurements meanwhile.                              *)
(***************************************************************************)
NextCascade ==
    \/ BeforeAllPositive
    \/ CascadeBarrel
    \/ CascadeMeasure
    \/ CascadeDelete
    \/ CascadeCheck
    \/ FindCreatedMeasurementPost
    \/ CreateMinimal("MinimalNfc")

SpecCascade == Init /\ [][NextCascade]_vars

(***************************************************************************)
(* The scenarios of the measurements file that refer to a missing          *)
(* resource, with scenarios that create barrels meanwhile.                 *)
(***************************************************************************)
NextMissing ==
    \/ BeforeAllNegative
    \/ BarrelMissingDelete
    \/ BarrelMissingPost
    \/ MeasurementMissingDelete
    \/ MeasurementMissingGet
    \/ CreateMinimal("MinimalNfc")

SpecMissing == Init /\ [][NextMissing]_vars

(***************************************************************************)
(* Properties of the create / read / delete scenarios                      *)
(***************************************************************************)
\* A POST on the barrels collection.
IsCreateBarrel(x) == x.req.method = "POST" /\ x.req.path = <<barrelsEndpoint>>

\* A valid Barrel payload: the three tags are non-empty text, and the id, which
\* is optional on input, is left out or is an identifier.
ValidBarrelPayload(w) ==
    /\ w.k = "obj"
    /\ \A f \in {"qr", "rfid", "nfc"} : Get(w, f).k = "str" /\ Get(w, f).s # ""
    /\ (Get(w, "id").k = "undef" \/ (Get(w, "id").k = "str" /\ IsGuid(Get(w, "id").s)))

\* The DELETE of 'Delete barrel' is never answered 204.
DeleteNeverSucceeds == pc["DeleteBarrel"] # "deleted"

C2_GetReadsOwnCreatedBarrel ==
    (last.by = "GetCreatedBarrel" /\ last.req.method = "GET")
    => LET created == loc["GetCreatedBarrel"].resp
       IN  /\ created.status = 201
           /\ last.req.path = <<barrelsEndpoint, TemplateStr(Get(created.body, "id"))>>
           /\ last.resp.status = 200
           /\ last.resp.body = created.body

\* C3: in 'Delete barrel' the DELETE and the read after it go to the identifier
\* of the barrel the scenario's own POST created; the DELETE is answered 204
\* and the read 404.
C3_DeleteTargetsOwnCreatedBarrel ==
    (last.by = "DeleteBarrel" /\ last.req.method \in {"DELETE", "GET"})
    => LET created == loc["DeleteBarrel"].resp
       IN  /\ created.status = 201
           /\ last.req.path = <<barrelsEndpoint, TemplateStr(Get(created.body, "id"))>>
           /\ last.req.method = "DELETE" => last.resp.status = 204
           /\ last.req.method = "GET" => last.resp.status = 404

(***************************************************************************)
(* Properties of the measurements scenarios and of the listings            *)
(***************************************************************************)
\* A POST on the measurements collection.
IsCreateMeasurement(x) == x.req.method = "POST" /\ x.req.path = <<measurementsEndpoint>>

\* C4: a measurement of a barrel is gone once the barrel is deleted: no stored
\* measurement refers to a barrel that is not stored, and in 'Deleted barrel
\* deletes linked measurements', whose measurement was created with the id of
\* the barrel it created, the read of that measurement after the 204 is
\* answered 404, whatever else is created meanwhile.
C4_DeleteCascades ==
    LET B == loc["Cascade"].barrel
        M == loc["Cascade"].resp.body
    IN  /\ \A m \in measurements : \E b \in barrels : b.id = m.barrelId
        /\ pc["Cascade"] \in {"measured", "deleted", "passed"}
           => Get(M, "barrelId") = Get(B, "id")
        /\ pc["Cascade"] \in {"deleted", "passed"}
           => \A m \in measurements : Str(m.id) # Get(M, "id")
        /\ (last.by = "Cascade" /\ last.req.method = "GET")
           => /\ last.req.path = <<measurementsEndpoint, Get(M, "id").s>>
              /\ last.resp.status = 404
        /\ pc["Cascade"] # "failed"

\* The measurement was read after the DELETE of its barrel, while a measurement
\* of another barrel is still stored.
C4_Witness ==
    /\ last.by = "Cascade"
    /\ last.req.method = "GET"
    /\ pc["Cascade"] = "passed"
    /\ \E m \in measurements : Str(m.barrelId) = barrelId

\* C8: once a barrel (a measurement) was created with 201, the listing is a
\* non-empty array whose every element passes the entity schema and which holds
\* an entry with the created id, equal to what the create call returned,
\* whatever other scenarios have created or deleted meanwhile; both 'find
\* created' scenarios pass.
C8_ListingHoldsCreated ==
    /\ (last.by = "FindCreatedBarrel" /\ last.req.method = "GET")
       => LET created == loc["FindCreatedBarrel"].resp
              list == last.resp.body
          IN  /\ created.status = 201
              /\ last.resp.status = 200
              /\ barrelObjectArray(list)
              /\ Len(list.a) > 0
              /\ FindById(list, Get(created.body, "id")) = created.body
              /\ last.ok
    /\ (last.by = "FindCreatedMeasurement" /\ last.req.method = "GET")
       => LET created == loc["FindCreatedMeasurement"].resp
              list == last.resp.body
          IN  /\ created.status = 201
              /\ last.resp.status = 200
              /\ measurementObjectArray(list)
              /\ Len(list.a) > 0
              /\ FindById(list, Get(created.body, "id")) = created.body
              /\ last.ok

\* The measurement was found in a listing that holds other measurements too,
\* after the barrel was found in its listing.
C8_Witness ==
    /\ last.by = "FindCreatedMeasurement"
    /\ last.req.method = "GET"
    /\ Len(last.resp.body.a) > 1
    /\ pc["FindCreatedBarrel"] = "passed"
    /\ pc["FindCreatedMeasurement"] = "passed"

\* C10: POST /measurements of an otherwise valid measurement whose barrelId is
\* a GUID of no stored barrel is answered 404 with the title 'Barrel was not
\* found.', and creates nothing; 'Post - Barrel does not exists', which first
\* sends DELETE /barrels/{id} for its fresh id, passes; the read of
\* 'Get - Measurement does not exists' is answered 404.
C10_MissingReferenceIs404 ==
    /\ ( /\ IsCreateMeasurement(last)
         /\ measurementObject(last.req.data)
         /\ Get(last.req.data, "dirtLevel").n >= 0
         /\ Get(last.req.data, "weight").n >= 0
         /\ \A b \in barrels : Str(b.id) # Get(last.req.data, "barrelId") )
       => /\ last.resp.status = 404
          /\ Get(last.resp.body, "title") = Str("Barrel was not found.")
          /\ \A m \in measurements : m.id # last.req.guid
    /\ (last.by = "BarrelMissing" /\ last.req.method = "POST")
       => /\ last.resp.status = 404
          /\ Get(last.req.data, "barrelId") = loc["BarrelMissing"].barrel
          /\ last.ok
    /\ (last.by = "BarrelMissing" /\ last.req.method = "DELETE")
       => last.req.path = <<"barrels", loc["BarrelMissing"].barrel.s>>
    /\ (last.by = "MeasurementMissing" /\ last.req.method = "GET")
       => last.resp.status = 404

\* Both scenarios have passed, the POST last, with barrels in the store.
C10_Witness ==
    /\ last.by = "BarrelMissing"
    /\ last.req.method = "POST"
    /\ pc["BarrelMissing"] = "passed"
    /\ pc["MeasurementMissing"] = "passed"
    /\ barrels # {}

(***************************************************************************)
(* Properties of the negative scenarios                                    *)
(***************************************************************************)
\* The required fields of the entity a create request is for.
FieldsOf(x) == IF IsCreateBarrel(x) THEN BarrelFields ELSE MeasurementFields

\* A valid value of field f in a create body.
ValidValue(f, v) ==
    CASE f \in BarrelFields -> v.k = "str" /\ v.s # ""
      [] f = "barrelId" -> v.k = "str" /\ IsGuid(v.s)
      [] OTHER -> v.k = "num" /\ v.n >= 0

\* A create request, sent as JSON, in which every required field but f is valid.
OnlyFieldAtFault(x, f) ==
    /\ IsCreateBarrel(x) \/ IsCreateMeasurement(x)
    /\ Contains(x.req.ctype, "application/json")
    /\ f \in FieldsOf(x)
    /\ Get(x.req.data, "id").k = "undef"
    /\ \A g \in FieldsOf(x) \ {f} : ValidValue(g, Get(x.req.data, g))

\* The answer is 400 with the validation-error envelope, and errors[F][0] is
\* the fixed required-field message of f.
AnsweredRequired(x, f) ==
    x.resp.status = 400 /\ checkRequiredErrorResponse(f, x.resp.body)

C6_NegativeNumberRejected ==
    /\ \A f \in {"dirtLevel", "weight"} :
         ( /\ OnlyFieldAtFault(last, f)
           /\ IsCreateMeasurement(last)
           /\ Get(last.req.data, f).k = "num"
           /\ Get(last.req.data, f).n < 0
           /\ \E b \in barrels : Str(b.id) = Get(last.req.data, "barrelId") )
         => /\ last.resp.status = 400
            /\ checkMeasurementErrorResponse(last.resp.body)
            /\ At(Get(Get(last.resp.body, "errors"), ErrorKey(f)), 0)
                 = Str(IF f = "dirtLevel" THEN "DirtLevel must be positive number"
                       ELSE "Weight must be positive number")
            /\ \A m \in measurements : m.id # last.req.guid
    /\ \A f \in {"dirtLevel", "weight"} :
         last.by = TestName(f, "negative")
         => /\ last.ok
            /\ Get(last.req.data, f).n < 0
            /\ \E b \in barrels : Str(b.id) = Get(last.req.data, "barrelId")
            /\ \A m \in measurements : m.id # last.req.guid

\* 'Weight is negative number' has run against the barrel of the block.
C6_Witness ==
    /\ last.by = TestName("weight", "negative")
    /\ last.resp.status = 400
    /\ Get(last.req.data, "barrelId") = Get(barrel, "id")
    /\ Get(last.req.data, "weight") = N(-10)

\* C9: PUT and PATCH on /barrels and on /barrels/{id} are answered 405, and a
\* POST /barrels sent as multipart/form-data is answered 415; none of these
\* requests changes the store, and what the scenario expects is the status and
\* nothing else.
C9_UnsupportedRejected ==
    [][ /\ (last'.req.method \in {"PUT", "PATCH"} /\ last'.req.path[1] = barrelsEndpoint)
           => /\ last'.resp.status = 405
              /\ UNCHANGED <<barrels, measurements>>
        /\ (IsCreateBarrel(last') /\ ~Contains(last'.req.ctype, "application/json"))
           => /\ last'.resp.status = 415
              /\ UNCHANGED <<barrels, measurements>>
        /\ last'.by \in MethodTests
           => /\ last'.req.method \in {"PUT", "PATCH"}
              /\ last'.req.path[1] = barrelsEndpoint
              /\ last'.ok = (last'.resp.status = 405)
        /\ last'.by = "WrongContentType"
           => /\ IsCreateBarrel(last')
              /\ Contains(last'.req.ctype, "multipart/form-data")
              /\ last'.ok = (last'.resp.status = 415)
      ]_vars

\* The multipart POST was answered 415 while barrels are stored.
C9_Witness ==
    /\ last.by = "WrongContentType"
    /\ last.resp.status = 415
    /\ last.req.ctype = "multipart/form-data; boundary=ExampleBoundaryString"
    /\ Cardinality(barrels) >= 2

(***************************************************************************)
(* test 'Create multiple barrels concurrently'.  conc.sent: the payloads   *)
(* (by position) whose request was issued; conc.responses: the responses   *)
(* received so far, by position.                                           *)
(***************************************************************************)
\* Array.from({ length: 10 }, ...)
ConcurrentCount == 10

\* const barrelPayloads = Array.from(..., (_, i) => ({ qr: `concurrent_qr_${i + 1}`, ... }))
barrelPayloads ==
    [k \in 1..ConcurrentCount |->
        LET i == k - 1
        IN  Obj([ qr |-> Str("concurrent_qr_" \o TemplateStr(N(i + 1))),
                  rfid |-> Str("concurrent_rfid_" \o TemplateStr(N(i + 1))),
                  nfc |-> Str("concurrent_nfc_" \o TemplateStr(N(i + 1))) ])]

\* const createBarrel = (payload) => request.post(barrelsEndpoint, { data: payload })
createBarrel(payload, guid) ==
    Request("POST", <<barrelsEndpoint>>, NoHeaders, payload, guid)

\* A combinator that is fulfilled as soon as one of the n promises is.
PromiseRace(n, responses) == \E k \in 1..n : k \in DOMAIN responses

\* Promise.all(...): fulfilled when each of the n promises is.
PromiseAll(n, responses) == \A k \in 1..n : k \in DOMAIN responses

\* barrelPayloads.map(createBarrel): every request is issued before the
\* scenario yields at the await.
ConcurrentSend ==
    /\ pc["Concurrent"] = "start"
    /\ conc' = [sent |-> 1..Len(barrelPayloads), responses |-> <<>>]
    /\ pc' = [pc EXCEPT !["Concurrent"] = "awaiting"]
    /\ UNCHANGED <<barrels, measurements, loc, last, checked>>

\* The service answers the k-th request, in whatever order it picks.
ConcurrentServe(k) ==
    /\ k \in conc.sent \ DOMAIN conc.responses
    /\ \E ex \in {Serve(Store, createBarrel(barrelPayloads[k], Guid(Origin("Concurrent"), k)))} :
         /\ barrels' = ex.st.barrels
         /\ measurements' = ex.st.measurements
         /\ conc' = [conc EXCEPT !.responses =
                        [x \in DOMAIN @ \cup {k} |-> IF x = k THEN ex.resp ELSE @[x]]]
         /\ last' = [ by |-> "Concurrent",
                      req |-> createBarrel(barrelPayloads[k], Guid(Origin("Concurrent"), k)),
                      resp |-> ex.resp, ok |-> TRUE ]
    /\ UNCHANGED <<pc, loc, checked>>

\* await Promise.all(...) returns; for (const res of responses) expect(res.status()).toBe(201)
ConcurrentAssert ==
    /\ pc["Concurrent"] = "awaiting"
    /\ PromiseAll(Cardinality(conc.sent), conc.responses)
    /\ pc' = [pc EXCEPT !["Concurrent"] =
                 IF \A k \in DOMAIN conc.responses : conc.responses[k].status = 201
                 THEN "passed" ELSE "failed"]
    /\ UNCHANGED <<barrels, measurements, loc, conc, last, checked>>

\* The concurrency scenario while another worker creates a barrel.
NextConcurrent ==
    \/ ConcurrentSend
    \/ \E k \in 1..ConcurrentCount : ConcurrentServe(k)
    \/ ConcurrentAssert
    \/ CreateMinimal("MinimalRfid")

SpecConcurrent == Init /\ [][NextConcurrent]_vars

\* C7: in the concurrency scenario ten POST /barrels requests with pairwise
\* distinct payloads are in flight at the same time; the scenario asserts only
\* after all ten have completed; and whatever the order in which the service
\* answers them (and whatever other workers do meanwhile), each response is 201
\* for its own payload and the scenario passes.
C7_ConcurrentCreatesSucceed ==
    /\ \A i, j \in 1..Len(barrelPayloads) :
         i # j => \A f \in BarrelFields : Get(barrelPayloads[i], f) # Get(barrelPayloads[j], f)
    /\ pc["Concurrent"] # "start" => conc.sent = 1..10
    /\ Finished("Concurrent") => DOMAIN conc.responses = 1..10
    /\ \A k \in DOMAIN conc.responses :
         /\ conc.responses[k].status = 201
         /\ TagsEqual(conc.responses[k].body, barrelPayloads[k])
         /\ Truthy(Get(conc.responses[k].body, "id"))
    /\ pc["Concurrent"] # "failed"

\* The scenario has passed, the first request having been answered last, while
\* another worker's barrel is stored too.
C7_Witness ==
    /\ pc["Concurrent"] = "passed"
    /\ last.by = "Concurrent"
    /\ Get(last.req.data, "qr") = Str("concurrent_qr_1")
    /\ Cardinality(barrels) > 10

\* C11: POST /barrels in which a tag field F (qr, rfid, nfc) is a number, the
\* other tags valid, is answered 400 with the validation-error envelope,
\* errors.barrel[0] = 'The barrel field is required.', and under '$.F' a first
\* message that contains, without being equal to, 'The JSON value could not be
\* converted to System.String'; the required-field check of F would not hold
\* of that answer, and each 'attribute is a number' scenario sends such a
\* request and passes.
C11_WrongTypeIsConversionError ==
    /\ \A f \in BarrelFields :
         ( /\ IsCreateBarrel(last)
           /\ Contains(last.req.ctype, "application/json")
           /\ Get(last.req.data, "id").k = "undef"
           /\ Get(last.req.data, f).k = "num"
           /\ \A g \in BarrelFields \ {f} : ValidValue(g, Get(last.req.data, g)) )
         => LET errors == Get(last.resp.body, "errors")
                message == At(Get(errors, "$." \o f), 0)
            IN  /\ last.resp.status = 400
                /\ Get(last.resp.body, "title") = Str("One or more validation errors occurred.")
                /\ At(Get(errors, "barrel"), 0) = Str("The barrel field is required.")
                /\ message.k = "str"
                /\ \E p, t \in Affixes :
                     message.s = p \o "The JSON value could not be converted to System.String" \o t
                /\ message.s # "The JSON value could not be converted to System.String"
                /\ ~checkRequiredErrorResponse(f, last.resp.body)
                /\ \A b \in barrels : b.id # last.req.guid
    /\ \A f \in BarrelFields :
         last.by = TestName(f, "number")
         => /\ last.ok
            /\ IsCreateBarrel(last)
            /\ Get(last.req.data, f) = N(123)

\* 'RFID attribute is a number' has run and was answered with the '$.rfid' key.
C11_Witness ==
    /\ last.by = TestName("rfid", "number")
    /\ last.resp.status = 400
    /\ Truthy(Get(Get(last.resp.body, "errors"), "$.rfid"))
    /\ ~Truthy(Get(Get(last.resp.body, "errors"), "Rfid"))

\* The five invalid states of a field.
InvalidStates == {"missing", "null", "undefined", "empty", "number"}

\* The invalid states the suite has a test for, per field: the describe blocks
\* 'Post - QR / RFID / NFC attribute' hold five tests each, 'Post - Barrel Id'
\* four, 'Post - Dirt level' and 'Post - Weight' three and 'negative number'.
NegativeStates(f) ==
    RequiredStates(f) \cup (IF f \in BarrelFields THEN {"number"} ELSE {})

\* C12: for every required field of both entities the negative scenarios hold
\* the same five invalid states (absent, null, undefined, empty string, wrong
\* type): the pairs the suite covers are the full product of the six fields
\* with the five states, and every test that has run is one of them.
C12_FullProductCovered ==
    /\ {<<f, state>> : f \in BarrelFields \cup MeasurementFields, state \in InvalidStates}
         = UNION { {<<f, state>> : state \in NegativeStates(f)} :
                     f \in BarrelFields \cup MeasurementFields }
    /\ \A f \in BarrelFields \cup MeasurementFields : \A state \in NegativeStates(f) :
         last.by = TestName(f, state) => state \in InvalidStates

(***************************************************************************)
(* tests 'Post - Qr / RFID / Nfc is too long'                              *)
(***************************************************************************)
\* s.repeat(n)
Repeat(s, n) ==
    LET RECURSIVE Rep(_)
        Rep(k) == IF k = 0 THEN ""
                  ELSE LET h == Rep(k \div 2)
                       IN  h \o h \o (IF k % 2 = 1 THEN s ELSE "")
    IN  Rep(n)

\* 'x'.repeat(10000)
TooLongLength == 10000

TooLongField(s) ==
    CASE s = "QrTooLong" -> "qr"
      [] s = "RfidTooLong" -> "rfid"
      [] s = "NfcTooLong" -> "nfc"

TooLongTests == {"QrTooLong", "RfidTooLong", "NfcTooLong"}

TooLong(s) ==
    /\ pc[s] = "start"
    /\ \E r \in Seeds :
         LET f == TooLongField(s)
             barrelData == Set(prepareBarrelObject(r), f, Str(Repeat("x", TooLongLength)))
             Ok(response) ==
                 LET responseBody == response.body
                     errors == Get(responseBody, "errors")
                 IN  /\ response.status = 400
                     /\ checkErrorResponse(responseBody)
                     /\ Truthy(Get(errors, ErrorKey(f)))
                     /\ At(Get(errors, ErrorKey(f)), 0) = Str("Input too long")
             Keep(response) == loc[s]
         IN  Call(s, Request("POST", <<barrelsEndpoint>>, NoHeaders, barrelData,
                             Guid(Origin(s), 0)), Ok, "passed", Keep)

NextTooLong ==
    \/ \E s \in TooLongTests : TooLong(s)
    \/ CreateValidBarrel
    \/ CreateMinimal("MinimalNfc")

SpecTooLong == Init /\ [][NextTooLong]_vars

\* C13: the suite enforces no upper bound on the length of qr, rfid or nfc: a
\* barrel with a tag of 10000 characters is a valid payload (it passes
\* barrelObject), the service, which has no maximum length, answers it 201 as
\* it does every valid payload, and no scenario of the suite fails on it.
C13_NoUpperBoundEnforced ==
    /\ ( /\ IsCreateBarrel(last)
         /\ \E f \in BarrelFields :
              /\ Get(last.req.data, f).k = "str"
              /\ Len(Get(last.req.data, f).s) = 10000 )
       => /\ barrelObject(last.req.data)
          /\ ValidBarrelPayload(last.req.data)
          /\ last.resp.status = 201
          /\ last.ok
    /\ \A s \in ScenarioNames : pc[s] # "failed"

(***************************************************************************)
(* The scenarios that use the barrel of their block, with scenarios that   *)
(* create and delete barrels meanwhile.                                    *)
(***************************************************************************)
\* test 'Create valid measurement'
CreateValidMeasurement ==
    /\ pc["BeforeAllPositive"] = "passed"
    /\ pc["CreateValidMeasurement"] = "start"
    /\ \E r \in Seeds :
         LET s == "CreateValidMeasurement"
             measurement == prepareMeasurementObject(barrelId, r)
             Ok(response) ==
                 LET chk == checkMeasurementResponseAndReturnBody(response)
                     body == chk.value
                 IN  /\ response.status = 201
                     /\ chk.ok
                     /\ Truthy(Get(body, "id"))
                     /\ Get(body, "barrelId") = barrelId
                     /\ Get(body, "weight") = Get(measurement, "weight")
                     /\ Get(body, "dirtLevel") = Get(measurement, "dirtLevel")
             Keep(response) == loc[s]
         IN  Call(s, Request("POST", <<measurementsEndpoint>>, NoHeaders, measurement,
                             Guid(Origin(s), 0)), Ok, "passed", Keep)

NextShared ==
    \/ BeforeAllPositive
    \/ CreateValidMeasurement
    \/ FindCreatedMeasurementPost
    \/ FindCreatedMeasurementList
    \/ CascadeBarrel
    \/ CascadeMeasure
    \/ CascadeDelete
    \/ CascadeCheck
    \/ BeforeAllNegative
    \/ MeasurementFieldNegative("weight")

SpecShared == Init /\ [][NextShared]_vars

\* The GUIDs drawn for what scenario s creates.
CreatedBy(s) == {Str(Guid(Origin(s), n)) : n \in 0..9}

\* The outcome of a scenario that runs alone.
OutcomeAlone(s) == IF s \in {"GetCreatedBarrel", "DeleteBarrel"} THEN "failed" ELSE "passed"

\* C14 as stated: the scenarios share no mutable state and rely on no order:
\* each scenario creates the fixtures it uses (a measurement it posts refers to
\* a barrel the same scenario created), and under every order and interleaving
\* each scenario ends as it does alone.
C14_OwnFixturesOnly ==
    /\ (IsCreateMeasurement(last) /\ last.by # "")
       => Get(last.req.data, "barrelId") \in CreatedBy(last.by)
    /\ \A s \in ScenarioNames : Finished(s) => pc[s] = OutcomeAlone(s)

\* C14, amended: the scenarios of a measurements block share the barrel that
\* the block's beforeAll hook created before they start (a variable written
\* once by the hook and only read by the scenarios); every other fixture is
\* created by the scenario that uses it; no scenario changes what another one
\* uses, so under every order and interleaving each scenario ends as it does
\* alone.
C14_SharedBarrelOnly ==
    /\ (IsCreateMeasurement(last) /\ last.by \in ScenarioNames)
       => \/ Get(last.req.data, "barrelId") \in CreatedBy(last.by)
          \/ /\ pc["BeforeAllPositive"] = "passed"
             /\ Get(last.req.data, "barrelId") = barrelId
             /\ barrelId \in CreatedBy("BeforeAllPositive")
             /\ \E b \in barrels : Str(b.id) = barrelId
    /\ (IsCreateMeasurement(last) /\ last.by \notin ScenarioNames /\ last.by # "")
       => /\ pc["BeforeAllNegative"] = "passed"
          /\ Get(last.req.data, "barrelId") = Get(barrel, "id")
          /\ \E b \in barrels : Str(b.id) = Get(barrel, "id")
          /\ last.ok
    /\ \A s \in ScenarioNames : Finished(s) => pc[s] = OutcomeAlone(s)

\* 'Create valid measurement' has passed on the barrel of the block after the
\* cascade scenario deleted its own barrel.
C14_Witness ==
    /\ last.by = "CreateValidMeasurement"
    /\ pc["CreateValidMeasurement"] = "passed"
    /\ pc["Cascade"] \in {"deleted", "passed"}
    /\ Get(last.req.data, "barrelId") = barrelId

(***************************************************************************)
(* The validators and generators on their own: a validator is handed any   *)
(* response a service might give, a generator any draw.                    *)
(***************************************************************************)
\* The keys barrelObject and measurementObject declare.
BarrelKeys == {"id", "qr", "rfid", "nfc"}

MeasurementKeys == {"id", "barrelId", "dirtLevel", "weight"}

\* schema.safeParse(v).data: the declared keys of v, the others stripped.
ParsedData(keys, v) == Obj([x \in (DOMAIN v.o) \cap keys |-> v.o[x]])

SampleBarrel ==
    Obj([id |-> Str(Guid(0, 0)), qr |-> Str("q"), rfid |-> Str("r"), nfc |-> Str("n")])

SampleMeasurement ==
    Obj([id |-> Str(Guid(0, 1)), barrelId |-> Str(Guid(0, 0)),
         dirtLevel |-> N(10), weight |-> N(120)])

\* Bodies a response may carry.
SampleBodies ==
    { Null, Num(0), Str(""), EmptyObj, Arr(<<>>),
      SampleBarrel,
      Set(SampleBarrel, "meta", Str("data")),
      Set(SampleBarrel, "meta", Str("")),
      Set(SampleBarrel, "extra", N(1)),
      Set(SampleBarrel, "qr", Str("")),
      Set(SampleBarrel, "nfc", N(1)),
      Set(SampleBarrel, "id", Null),
      Obj([qr |-> Str("q"), rfid |-> Str("r"), nfc |-> Str("n")]),
      Obj([id |-> Str(Guid(0, 0)), qr |-> Str("q"), rfid |-> Str("r")]),
      SampleMeasurement,
      Set(SampleMeasurement, "note", Str("data")),
      Set(SampleMeasurement, "weight", N(-10)),
      Set(SampleMeasurement, "dirtLevel", Str("10")),
      Set(SampleMeasurement, "barrelId", Str("not-guid")),
      Obj([barrelId |-> Str(Guid(0, 0)), dirtLevel |-> N(10), weight |-> N(120)]),
      Obj([id |-> Str(Guid(0, 1)), barrelId |-> Str(Guid(0, 0)), dirtLevel |-> N(10)]) }

SampleTypes == {JsonType, ProblemType, "text/plain"}

SampleResponses ==
    { [status |-> 201, ctype |-> ct, body |-> b] : ct \in SampleTypes, b \in SampleBodies }
    \cup { [status |-> 200, ctype |-> JsonType, body |-> SampleBarrel] }

\* checkBarrelResponseAndReturnBody(response) on a response of any kind.
CheckBarrelResponse ==
    /\ \E response \in SampleResponses :
         checked' = [ fn |-> "checkBarrelResponseAndReturnBody", resp |-> response,
                      out |-> checkBarrelResponseAndReturnBody(response) ]
    /\ UNCHANGED <<barrels, measurements, pc, loc, conc, last>>

\* checkMeasurementResponseAndReturnBody(response) on a response of any kind.
CheckMeasurementResponse ==
    /\ \E response \in SampleResponses :
         checked' = [ fn |-> "checkMeasurementResponseAndReturnBody", resp |-> response,
                      out |-> checkMeasurementResponseAndReturnBody(response) ]
    /\ UNCHANGED <<barrels, measurements, pc, loc, conc, last>>

\* The expects of 'Extra body parameters will be ignored' on a response.
ExtraParamsExpects(data, response) ==
    LET chk == checkBarrelResponseAndReturnBody(response)
        body == chk.value
    IN  IF response.status # 201 THEN Checked(FALSE, "status", FALSE, Undef)
        ELSE IF ~chk.ok THEN chk
        ELSE IF ~Truthy(body) THEN Checked(FALSE, "body", TRUE, body)
        ELSE IF ~Truthy(Get(body, "id")) THEN Checked(FALSE, "id", TRUE, body)
        ELSE IF ~TagsEqual(body, data) THEN Checked(FALSE, "tags", TRUE, body)
        ELSE IF Truthy(Get(body, "meta")) THEN Checked(FALSE, "meta", TRUE, body)
        ELSE Checked(TRUE, "", TRUE, body)

\* data of 'Extra body parameters will be ignored'
ExtraParamsData(r) == Set(prepareBarrelObject(r), "meta", Str("data"))

\* test 'Extra body parameters will be ignored'
ExtraParams ==
    /\ pc["ExtraParams"] = "start"
    /\ \E r \in Seeds :
         LET s == "ExtraParams"
             Ok(response) == ExtraParamsExpects(ExtraParamsData(r), response).ok
             Keep(response) == loc[s]
         IN  Call(s, Request("POST", <<barrelsEndpoint>>, NoHeaders, ExtraParamsData(r),
                             Guid(Origin(s), 0)), Ok, "passed", Keep)

\* The same expects when the service answers the POST in any other way.
ExtraParamsAnswered ==
    /\ \E response \in SampleResponses :
         checked' = [ fn |-> "ExtraParams", resp |-> response,
                      out |-> ExtraParamsExpects(SampleBarrel, response) ]
    /\ UNCHANGED <<barrels, measurements, pc, loc, conc, last>>

NextValidate ==
    \/ CheckBarrelResponse
    \/ CheckMeasurementResponse
    \/ ExtraParams
    \/ ExtraParamsAnswered

SpecValidate == Init /\ [][NextValidate]_vars

\* C15: schema enforcement is strict: a response body with a key the entity
\* schema does not declare fails the schema check of the response validator,
\* so 'Extra body parameters will be ignored' passes only if the service
\* returns exactly the declared Barrel fields.
C15_SchemaIsStrict ==
    /\ ( /\ checked.fn = "checkBarrelResponseAndReturnBody"
         /\ checked.out.read
         /\ checked.resp.body.k = "obj"
         /\ ~(DOMAIN checked.resp.body.o \subseteq BarrelKeys) )
       => ~checked.out.ok
    /\ ( /\ checked.fn = "checkMeasurementResponseAndReturnBody"
         /\ checked.out.read
         /\ checked.resp.body.k = "obj"
         /\ ~(DOMAIN checked.resp.body.o \subseteq MeasurementKeys) )
       => ~checked.out.ok
    /\ (checked.fn = "ExtraParams" /\ checked.out.ok)
       => DOMAIN checked.resp.body.o = BarrelKeys

\* C16: the two response validators return a value only if, in this order,
\* the content-type header contains 'application/json', the parsed body is
\* truthy, and the body passes the entity schema; the first step that fails
\* fails the test and no later step runs (the body is not read when the
\* content-type check fails); the value returned is the value that schema
\* validation produced.
C16_ValidatorStepsAndValue ==
    \A v \in { [fn |-> "checkBarrelResponseAndReturnBody", keys |-> BarrelKeys],
               [fn |-> "checkMeasurementResponseAndReturnBody", keys |-> MeasurementKeys] } :
        checked.fn = v.fn
        => LET response == checked.resp
               json == Contains(response.ctype, "application/json")
               schema == IF v.keys = BarrelKeys THEN barrelObject(response.body)
                         ELSE measurementObject(response.body)
           IN  /\ checked.out.ok = (json /\ Truthy(response.body) /\ schema)
               /\ ~json => (checked.out.failed = "content-type" /\ ~checked.out.read)
               /\ (json /\ ~Truthy(response.body)) => checked.out.failed = "truthy"
               /\ (json /\ Truthy(response.body) /\ ~schema) => checked.out.failed = "schema"
               /\ ~checked.out.ok => checked.out.value = Undef
               /\ checked.out.ok => checked.out.value = ParsedData(v.keys, response.body)

\* prepareBarrelObject() on its own.
GenerateBarrel ==
    /\ \E r \in Seeds :
         LET value == prepareBarrelObject(r)
         IN  checked' = [ fn |-> "prepareBarrelObject", resp |-> NoResponse,
                          out |-> Checked(barrelObject(value), "", FALSE, value) ]
    /\ UNCHANGED <<barrels, measurements, pc, loc, conc, last>>

\* The arguments the suite calls prepareMeasurementObject with: barrelId of the
\* positive block, barrelToBeDeleted.id, and a faker.string.uuid().
GeneratorArguments ==
    {barrelId : x \in {s \in {"BeforeAllPositive"} : pc[s] = "passed"}}
    \cup {Get(loc["Cascade"].barrel, "id") : x \in {s \in {"Cascade"} : pc[s] = "created"}}
    \cup {Str(FakerUuid("BarrelMissing", r)) : r \in Seeds}

\* prepareMeasurementObject(barrelId) on its own.
GenerateMeasurement ==
    /\ \E arg \in GeneratorArguments : \E r \in Seeds :
         LET value == prepareMeasurementObject(arg, r)
         IN  checked' = [ fn |-> "prepareMeasurementObject", resp |-> NoResponse,
                          out |-> Checked(measurementObject(value), "", FALSE, value) ]
    /\ UNCHANGED <<barrels, measurements, pc, loc, conc, last>>

NextGenerate ==
    \/ GenerateBarrel
    \/ GenerateMeasurement
    \/ BeforeAllPositive
    \/ CascadeBarrel
    \/ CascadeMeasure
    \/ CascadeDelete
    \/ CascadeCheck

SpecGenerate == Init /\ [][NextGenerate]_vars

\* C17: every value prepareBarrelObject() returns passes the Barrel schema;
\* every value prepareMeasurementObject(barrelId) returns, for every barrelId
\* the suite calls it with, passes the Measurement schema, carries that
\* barrelId, and has dirtLevel in [1, 95] with two fractional digits and
\* weight in [100, 200] with one; calling a generator sends nothing and
\* leaves the store as it is.
C17_GeneratedValuesPassSchema ==
    /\ [] /\ checked.fn = "prepareBarrelObject"
             => /\ checked.out.ok
                /\ ZStringMin1(Get(checked.out.value, "qr"))
                /\ ZStringMin1(Get(checked.out.value, "rfid"))
                /\ ZStringMin1(Get(checked.out.value, "nfc"))
                /\ Len(Get(checked.out.value, "nfc").s) = 20
          /\ checked.fn = "prepareMeasurementObject"
             => /\ checked.out.ok
                /\ ZUuid(Get(checked.out.value, "barrelId"))
                /\ Get(checked.out.value, "dirtLevel").k = "num"
                /\ Get(checked.out.value, "dirtLevel").n \in 1 * 100 .. 95 * 100
                /\ Get(checked.out.value, "weight").k = "num"
                /\ Get(checked.out.value, "weight").n \in 100 * 100 .. 200 * 100
                /\ Get(checked.out.value, "weight").n % 10 = 0
    /\ [][ checked'.fn \in {"prepareBarrelObject", "prepareMeasurementObject"}
           => \/ UNCHANGED <<barrels, measurements, last>>
              \/ UNCHANGED checked ]_vars

\* prepareMeasurementObject was called with the id of the barrel the cascade
\* scenario created.
C17_Witness ==
    /\ checked.fn = "prepareMeasurementObject"
    /\ pc["Cascade"] = "created"
    /\ Get(checked.out.value, "barrelId") = Get(loc["Cascade"].barrel, "id")
    /\ checked.out.ok

\* C18: every record the Measurement schema accepts has dirtLevel >= 0 and
\* weight >= 0 and a barrelId that is a well-formed identifier; a record with a
\* negative dirtLevel or weight is rejected by the schema.
C18_SchemaKeepsNonNegative ==
    (checked.fn = "checkMeasurementResponseAndReturnBody" /\ checked.out.read)
    => LET record == checked.resp.body
       IN  /\ measurementObject(record)
              => /\ Get(record, "dirtLevel").n >= 0
                 /\ Get(record, "weight").n >= 0
                 /\ IsGuid(Get(record, "barrelId").s)
           /\ ( /\ record.k = "obj"
                /\ \E f \in {"dirtLevel", "weight"} :
                     Get(record, f).k = "num" /\ Get(record, f).n < 0 )
              => (~measurementObject(record) /\ ~checked.out.ok)

\* C19: the barrel scenarios agree on identifiers: the service answers 400 to
\* a POST /barrels whose id is not a GUID, as 'Post - ID is not guid format'
\* requires, and yet 'Get created barrel' passes: the id its POST carries is
\* accepted, the barrel is stored under it, and GET /barrels/{id} is answered
\* 200.
C19_IdentifierScenariosAgree ==
    /\ last.by = "NotGuid" => (last.resp.status = 400 /\ last.ok)
    /\ (last.by = "GetCreatedBarrel" /\ last.req.method = "POST")
       => /\ last.resp.status = 201
          /\ \E b \in barrels : Str(b.id) = Get(last.req.data, "id")
    /\ (last.by = "GetCreatedBarrel" /\ last.req.method = "GET")
       => (last.resp.status = 200 /\ last.ok)
    /\ pc["GetCreatedBarrel"] # "failed"

\* The request of the 'F is missing' scenario as it goes out.
MissingRequestData(f) ==
    IF f \in BarrelFields
    THEN Obj([x \in BarrelFields \ {f} |-> Str("filled")])
    ELSE Obj([x \in MeasurementFields \ {f} |->
                IF x = "barrelId" THEN Get(barrel, "id") ELSE N(10)])

\* C20: for every required field F the 'F is undefined' scenario puts on the
\* wire exactly the request of 'F is missing' (the field set to undefined is
\* dropped on serialization), both get the same answer, and so the five
\* invalid states are at most four distinct inputs.
C20_UndefinedIsMissingOnTheWire ==
    /\ \A f \in BarrelFields \cup MeasurementFields :
       \A state \in {"missing", "undefined"} :
         last.by = TestName(f, state)
         => /\ last.req.data = MissingRequestData(f)
            /\ f \notin DOMAIN last.req.data.o
            /\ last.resp.status = 400
            /\ At(Get(Get(last.resp.body, "errors"), ErrorKey(f)), 0)
                 = Str(ServiceRequiredMessage(f))
            /\ last.ok
    /\ \A f \in BarrelFields :
         Cardinality({Request("POST", <<barrelsEndpoint>>, NoHeaders,
                              WithState(FilledBarrel, f, state), "").data :
                         state \in InvalidStates}) <= 4

\* 'Barrel Id is undefined' has run, and what went out has no barrelId.
C20_Witness ==
    /\ last.by = TestName("barrelId", "undefined")
    /\ DOMAIN last.req.data.o = {"dirtLevel", "weight"}
    /\ last.resp.status = 400

(***************************************************************************)
(* Every scenario of the two files that issues a DELETE on a barrel, each  *)
(* up to and including its DELETE, with the hooks of the measurements      *)
(* blocks and one scenario of each block that posts a measurement for the  *)
(* barrel its hook created.                                                *)
(***************************************************************************)
\* test 'Delete - Barrel does not exist'
DeleteMissingBarrel ==
    LET s == "DeleteMissing"
        Ok(response) == response.status = 404
        Keep(response) == loc[s]
    IN  Call(s, Request("DELETE", <<barrelsEndpoint, "I-do-not-exist">>, NoHeaders,
                        Undef, ""), Ok, "passed", Keep)

NextDeletes ==
    \/ BeforeAllPositive
    \/ BeforeAllNegative
    \/ CreateValidMeasurement
    \/ MeasurementFieldNegative("dirtLevel")
    \/ CascadeBarrel
    \/ CascadeMeasure
    \/ CascadeDelete
    \/ DeleteBarrelPost
    \/ DeleteBarrelDelete
    \/ DeleteMissingBarrel
    \/ BarrelMissingDelete

SpecDeletes == Init /\ [][NextDeletes]_vars

\* The ids of the barrels the beforeAll hooks have created so far.
SharedBarrelIds ==
    {barrelId : x \in {s \in {"BeforeAllPositive"} : pc[s] = "passed"}}
    \cup {Get(barrel, "id") : x \in {s \in {"BeforeAllNegative"} : pc[s] = "passed"}}

\* C21: in every interleaving of the scenarios of both files, the barrel a
\* measurements block's beforeAll created is never the target of a DELETE any
\* scenario issues, so it is in the store at every POST /measurements that
\* refers to it, and no such POST is answered 'Barrel was not found.'.
C21_SharedBarrelNeverDeleted ==
    /\ \A id \in SharedBarrelIds :
         /\ id.k = "str"
         /\ \E b \in barrels : b.id = id.s
         /\ (last.req.method = "DELETE" /\ last.req.path[1] = barrelsEndpoint)
            => last.req.path[2] # id.s
    /\ (IsCreateMeasurement(last) /\ Get(last.req.data, "barrelId") \in SharedBarrelIds)
       => /\ last.resp.status # 404
          /\ Get(last.resp.body, "title") # Str("Barrel was not found.")
          /\ last.ok

\* 'Create valid measurement' got 201 on the barrel of its block after the
\* cascade scenario, 'Post - Barrel does not exists' and 'Delete barrel' had
\* issued their DELETEs.
C21_Witness ==
    /\ last.by = "CreateValidMeasurement"
    /\ last.resp.status = 201
    /\ Get(last.req.data, "barrelId") \in SharedBarrelIds
    /\ pc["Cascade"] = "deleted"
    /\ pc["BarrelMissing"] = "deleted"
    /\ pc["DeleteBarrel"] \notin {"start", "posted"}

====
